---- MODULE Spec2Model ----
(***************************************************************************)
(* A model of mirror_github_releases.py: the ledger store                  *)
(* (load_synced_data / save_synced_data), the transfer executor            *)
(* (delete_existing_asset / retry_upload), the asset decision of           *)
(* sync_release_assets, and the run of main.                               *)
(***************************************************************************)
EXTENDS Integers, Sequences, FiniteSets, TLC

VARIABLES
    \* ---- the three ledger files on disk (shared by every specification)
    synced_data_file,     \* SYNCED_DATA_FILE
    synced_data_backup,   \* SYNCED_DATA_BACKUP
    temp_file,            \* f"{SYNCED_DATA_FILE}.tmp"
    \* ---- one save_synced_data call followed step by step (SpecLedger)
    lpc,                  \* position of the process in save / load
    saving,               \* the argument `data` of the save in progress
    prePrimary,           \* content of the primary file when the call began
    preBackup,            \* content of the backup file when the call began
    saveFailed,           \* the call went through its except branch
    crashedAt,            \* position at which the process was interrupted
    loaded,               \* what the last load_synced_data returned
    \* ---- configuration and the target repository
    retry_count,          \* RETRY_COUNT
    target_repo,          \* target releases: tag -> [name, body, draft, prerelease, assets]
    clock,                \* the hosting platform's time
    \* ---- one retry_upload call followed iteration by iteration
    upc,                  \* "idle", "attempt" (top of the for loop), "returned", "raised"
    up_tag,               \* tag of the argument target_release
    up_name,              \* argument name
    up_file,              \* content of the file at file_path
    attempt,              \* the loop variable: iterations completed so far
    uploads,              \* calls of target_release.upload_asset made so far
    sleeps,               \* calls of time.sleep(RETRY_DELAY) made so far
    lastUp,               \* how the upload of the last iteration went
    lastSlept,            \* the last iteration ended in time.sleep(RETRY_DELAY)
    handler,              \* what the 422 handler of the last iteration did
    conflicts,            \* uploads of this call that ended in a 422
    result,               \* the return value: NotYet, None or the uploaded asset
    \* ---- the need_sync decision on drawn inputs (SpecDecide)
    dec_pc,               \* "input" or "decided"
    dec_ledger,           \* synced_data['assets'][source_id]
    dec_asset,            \* the source asset
    dec_target_assets,    \* target_assets: name -> asset of the target release
    dec_out,              \* [need_sync, rule]
    \* ---- the run of main
    source_repo,          \* the source releases, sorted by created_at
    target_refs,          \* the tag refs of the target repository: tag -> sha
    temp_files,           \* temp_* download files: path -> content
    proc,                 \* the running process: position and local variables
    hist                  \* what this run and the runs before it did

ledgerFiles == <<synced_data_file, synced_data_backup, temp_file>>
ledgerProc  == <<lpc, saving, prePrimary, preBackup, saveFailed, crashedAt, loaded>>
uploadArgs  == <<up_tag, up_name, up_file>>
uploadProc  == <<upc, uploadArgs, attempt, uploads, sleeps, lastUp, lastSlept, handler,
                  conflicts, result>>
remote      == <<target_repo, clock>>
decideProc  == <<dec_pc, dec_ledger, dec_asset, dec_target_assets, dec_out>>
mainProc    == <<source_repo, target_refs, temp_files, proc, hist>>
notLedger   == <<retry_count, remote, uploadProc, decideProc, mainProc>>
notUpload   == <<ledgerFiles, ledgerProc, decideProc, mainProc>>
notDecide   == <<ledgerFiles, ledgerProc, retry_count, remote, uploadProc, mainProc>>
notMain     == <<ledgerProc, decideProc>>
vars        == <<ledgerFiles, ledgerProc, retry_count, remote, uploadProc, decideProc,
                 mainProc>>

(***************************************************************************)
(* Bounds of the model.                                                    *)
(***************************************************************************)
MaxGen == 2            \* ledger generations 0..MaxGen used as save arguments
MaxRetryCount == 3     \* RETRY_COUNT ranges over 0..MaxRetryCount (default 3)
MaxSize == 2           \* asset sizes range over 1..MaxSize
MaxTime == 2           \* wall-clock readings of asset timestamps range over 0..MaxTime
MaxReleases == 1       \* the source repository has 1..MaxReleases releases
MaxMainRetry == 1      \* RETRY_COUNT ranges over 1..MaxMainRetry in the runs of main
MaxFaults == 2         \* failures of the platform or the disk, and kills, in one behaviour

(***************************************************************************)
(* Python dicts as functions with a finite domain.                         *)
(***************************************************************************)
EmptyDict == << >>

DictSet(d, k, v) == [y \in (DOMAIN d) \cup {k} |-> IF y = k THEN v ELSE d[y]]

SetDefault(d, k, v) == IF k \in DOMAIN d THEN d ELSE DictSet(d, k, v)

\* str(release.id): the decimal text of an integer, kept apart from the integer
Str(n) == <<"str", n>>

\* the tag of the n-th source release
Tag(n) == <<"v", n>>

(***************************************************************************)
(* 1. Ledger store                                                         *)
(***************************************************************************)
EmptyLedger == [releases |-> EmptyDict, assets |-> EmptyDict, source_codes |-> EmptyDict]

\* A file: missing, unparseable bytes (garbage or a truncated write), or the
\* JSON text of a document.
Absent  == [kind |-> "absent"]
Garbage == [kind |-> "garbage"]

\* json.dump(data, f, indent=2): the text of the document
json_dump(data) == [kind |-> "json", doc |-> data]

\* os.path.exists(path)
exists(file) == file.kind # "absent"

\* whether _load(path) returns (TRUE) or raises (FALSE)
parses(file) == file.kind = "json"

\* _load(path): open + json.load, for a file that parses
_load(file) == file.doc

load_NoFallback(primary, bak) ==
    IF exists(primary) /\ parses(primary)
        THEN [raised |-> FALSE, value |-> _load(primary)]
        ELSE [raised |-> FALSE, value |-> EmptyLedger]

\* load_synced_data(): the backup is read only in the except branch, that is
\* only when the primary exists and does not parse.
load_synced_data(primary, bak) ==
    IF exists(primary)
        THEN IF parses(primary)
                THEN [raised |-> FALSE, value |-> _load(primary)]
                ELSE IF exists(bak)
                        THEN IF parses(bak)
                                THEN [raised |-> FALSE, value |-> _load(bak)]
                                ELSE [raised |-> FALSE, value |-> EmptyLedger]
                        ELSE [raised |-> FALSE, value |-> EmptyLedger]
        ELSE [raised |-> FALSE, value |-> EmptyLedger]

\* The file system as a record, for the steps of save_synced_data.
FS(p, b, t) == [primary |-> p, backup |-> b, temp |-> t]

\* line 48-49: open(temp_file, 'w') and json.dump.  how = "ok": written and
\* closed; "open_fail": open raised, the file is as it was; "write_fail": the
\* file was truncated and the dump raised part-way.
save_write_temp(fs, data, how) ==
    CASE how = "ok"         -> [fs EXCEPT !.temp = json_dump(data)]
      [] how = "open_fail"  -> fs
      [] how = "write_fail" -> [fs EXCEPT !.temp = Garbage]

\* line 50-51: if the primary exists, os.replace(primary, backup)
save_promote_backup(fs) ==
    IF exists(fs.primary)
        THEN [fs EXCEPT !.backup = fs.primary, !.primary = Absent]
        ELSE fs

save_promote_temp_ToBackup(fs) ==
    [fs EXCEPT !.backup = fs.temp, !.temp = Absent]

\* line 52: os.replace(temp_file, SYNCED_DATA_FILE)
save_promote_temp(fs) ==
    [fs EXCEPT !.primary = fs.temp, !.temp = Absent]

\* line 54-57: the except branch removes the temp file if it exists
save_cleanup(fs) ==
    [fs EXCEPT !.temp = Absent]

\* the ways one save_synced_data call can go
SaveOutcomes == {"ok", "open_fail", "write_fail", "backup_fail", "promote_fail"}

\* save_synced_data(data) as a whole, for the outcome `how`
save_synced_data(fs, data, how) ==
    CASE how = "ok" ->
            save_promote_temp(save_promote_backup(save_write_temp(fs, data, "ok")))
      [] how \in {"open_fail", "write_fail"} ->
            save_cleanup(save_write_temp(fs, data, how))
      [] how = "backup_fail" ->
            save_cleanup(save_write_temp(fs, data, "ok"))
      [] how = "promote_fail" ->
            save_cleanup(save_promote_backup(save_write_temp(fs, data, "ok")))

(***************************************************************************)
(* 2. Transfer executor                                                    *)
(***************************************************************************)
None   == [none |-> TRUE]

\* a string value of a field that can also be None
Text(str) == [text |-> str]
NotYet == [notyet |-> TRUE]

\* RETRY_COUNT = int(os.environ.get('RETRY_COUNT', 3))
RETRY_COUNT_DEFAULT == 3

\* asset names used in a target release; a name is a tuple of its parts, so
\* that f"SourceCode_{tag_name}.zip" is a name like any other
AppZip == <<"app.zip">>
OtherBin == <<"other.bin">>
AssetNames == {AppZip, OtherBin}

\* a point in time as the platform reports it: a wall-clock reading and the
\* offset of its zone from UTC
DateTime(w, o) == [wall |-> w, off |-> o]

\* delete_existing_asset(target_release, asset_name) on the dict of the
\* release's assets.  listing = "fail": get_assets() raises, outside the
\* function's own try.  deleting = "fail": asset.delete_asset() raises and is
\* swallowed, the loop goes on and finds no other asset of that name.
delete_existing_asset(assets, asset_name, listing, deleting) ==
    IF listing = "fail"
        THEN [raised |-> TRUE, ret |-> FALSE, assets |-> assets, did |-> "list_failed"]
        ELSE IF asset_name \in DOMAIN assets
                THEN IF deleting = "ok"
                        THEN [raised |-> FALSE, ret |-> TRUE,
                              assets |-> [n \in (DOMAIN assets) \ {asset_name} |-> assets[n]],
                              did |-> "deleted"]
                        ELSE [raised |-> FALSE, ret |-> FALSE, assets |-> assets,
                              did |-> "delete_failed"]
                ELSE [raised |-> FALSE, ret |-> FALSE, assets |-> assets, did |-> "no_match"]

\* the asset the platform creates for an uploaded file
uploaded_asset(file, now) == [size |-> file.size, updated_at |-> DateTime(now, 0)]

\* what one iteration of the loop can meet: the two listings and deletions
\* (proactive and in the 422 handler) and the upload itself
Outcomes ==
    [list1 : {"ok", "fail"}, del1 : {"ok", "fail"},
     up : {"ok", "none", "conflict", "error"},
     list2 : {"ok", "fail"}, del2 : {"ok", "fail"}]

AfterIteration_OneMore(st) ==
    LET n == st.attempt + 1
    IN  [st EXCEPT !.attempt = n,
                   !.sleeps = st.sleeps + 1,
                   !.lastSlept = TRUE,
                   !.status = IF n > st.retries THEN "returned" ELSE "attempt",
                   !.result = IF n > st.retries THEN None ELSE NotYet]

\* One iteration of `for attempt in range(RETRY_COUNT)` (lines 88-108) on the
\* state st = [assets, retries, attempt, uploads, sleeps, lastUp, lastSlept,
\* handler, conflicts, status, result] with the outcome o, the return after the loop included.
\* The sleep of line 108 closes every iteration that does not return or
\* raise, the one that met the 422 too.
AfterIteration(st) ==
    LET n == st.attempt + 1
    IN  [st EXCEPT !.attempt = n,
                   !.sleeps = st.sleeps + 1,
                   !.lastSlept = TRUE,
                   !.status = IF n >= st.retries THEN "returned" ELSE "attempt",
                   !.result = IF n >= st.retries THEN None ELSE NotYet]

retry_upload_iteration_GiveUpOn422(st, file, name, now, o) ==
    LET pre == delete_existing_asset(st.assets, name, o.list1, o.del1)
        s1  == [st EXCEPT !.assets = pre.assets, !.handler = "not_run", !.lastSlept = FALSE]
    IN  IF pre.raised
            THEN AfterIteration([s1 EXCEPT !.lastUp = "skipped"])
            ELSE LET s2 == [s1 EXCEPT !.uploads = s1.uploads + 1, !.lastUp = o.up]
                 IN  CASE o.up = "ok" ->
                            LET a == uploaded_asset(file, now)
                            IN  [s2 EXCEPT !.assets = DictSet(s2.assets, name, a),
                                           !.status = "returned", !.result = a]
                       [] o.up = "conflict" ->
                            [s2 EXCEPT !.status = "returned", !.result = None,
                                       !.conflicts = s2.conflicts + 1]
                       [] OTHER -> AfterIteration(s2)

retry_upload_iteration(st, file, name, now, o) ==
    LET pre == delete_existing_asset(st.assets, name, o.list1, o.del1)
        s1  == [st EXCEPT !.assets = pre.assets, !.handler = "not_run", !.lastSlept = FALSE]
    IN  IF pre.raised
            \* line 91 raised inside the try: caught at line 100 or 106
            THEN AfterIteration([s1 EXCEPT !.lastUp = "skipped"])
            ELSE LET s2 == [s1 EXCEPT !.uploads = s1.uploads + 1, !.lastUp = o.up]
                 IN  CASE o.up = "ok" ->
                            LET a == uploaded_asset(file, now)
                            IN  [s2 EXCEPT !.assets = DictSet(s2.assets, name, a),
                                           !.status = "returned", !.result = a]
                       [] o.up = "conflict" ->
                            \* line 103 runs in the except clause: what it
                            \* raises leaves retry_upload
                            LET h == delete_existing_asset(s2.assets, name, o.list2, o.del2)
                                s3 == [s2 EXCEPT !.assets = h.assets, !.handler = h.did,
                                                 !.conflicts = s2.conflicts + 1]
                            IN  IF h.raised
                                    THEN [s3 EXCEPT !.status = "raised"]
                                    ELSE AfterIteration(s3)
                       [] OTHER -> AfterIteration(s2)

\* the platform refuses a second asset of the same name in a release
UploadPossible(assets, name, listing, deleting, up) ==
    up = "ok" =>
        ~delete_existing_asset(assets, name, listing, deleting).raised
        /\ name \notin DOMAIN delete_existing_asset(assets, name, listing, deleting).assets

(***************************************************************************)
(* 3. The need_sync decision of sync_release_assets                        *)
(***************************************************************************)
\* dt.astimezone(datetime.timezone.utc): the same instant read in UTC
astimezone_utc(dt) == DateTime(dt.wall - dt.off, 0)

\* dt.isoformat(): the text of the reading and of its offset
isoformat(dt) == [iso |-> <<dt.wall, dt.off>>]

\* datetime.datetime.fromisoformat(text)
fromisoformat(text) == DateTime(text.iso[1], text.iso[2])

\* dt.timestamp(): the instant, as seconds since the epoch
timestamp(dt) == dt.wall - dt.off

\* lines 66-70 and 186-190: {'size', 'updated_at'} of an asset, the time
\* converted to UTC and written as text, or None when the asset has none
asset_info(asset) ==
    [size |-> asset.size,
     updated_at |-> IF asset.updated_at # None
                        THEN isoformat(astimezone_utc(asset.updated_at))
                        ELSE None]

\* get_asset_info(asset), lines 61-70
get_asset_info(asset) == IF asset = None THEN None ELSE asset_info(asset)

\* line 182: f"{asset_name}_{asset.size}"
asset_key(asset) == <<asset.name, "_", asset.size>>

\* target_assets.get(asset_name), line 195
dict_get(d, k) == IF k \in DOMAIN d THEN d[k] ELSE None

need_sync_IgnoresLedger(ledger, asset, target_assets) ==
    LET source_info  == asset_info(asset)
        target_asset == dict_get(target_assets, asset.name)
        target_info  == get_asset_info(target_asset)
    IN  IF target_asset = None
            THEN [need_sync |-> TRUE, rule |-> "target_missing"]
        ELSE IF source_info.size # target_info.size
            THEN [need_sync |-> TRUE, rule |-> "size"]
        ELSE IF source_info.updated_at # None /\ target_info.updated_at # None
                /\ timestamp(fromisoformat(source_info.updated_at))
                     > timestamp(fromisoformat(target_info.updated_at))
            THEN [need_sync |-> TRUE, rule |-> "newer"]
        ELSE [need_sync |-> FALSE, rule |-> "skip"]

need_sync_NotStrict(ledger, asset, target_assets) ==
    LET source_info  == asset_info(asset)
        target_asset == dict_get(target_assets, asset.name)
        target_info  == get_asset_info(target_asset)
    IN  IF asset_key(asset) \notin DOMAIN ledger
            THEN [need_sync |-> TRUE, rule |-> "ledger_missing"]
        ELSE IF target_asset = None
            THEN [need_sync |-> TRUE, rule |-> "target_missing"]
        ELSE IF source_info.size # target_info.size
            THEN [need_sync |-> TRUE, rule |-> "size"]
        ELSE IF source_info.updated_at # None /\ target_info.updated_at # None
                /\ timestamp(fromisoformat(source_info.updated_at))
                     >= timestamp(fromisoformat(target_info.updated_at))
            THEN [need_sync |-> TRUE, rule |-> "newer"]
        ELSE [need_sync |-> FALSE, rule |-> "skip"]

need_sync_TrustsLedger(ledger, asset, target_assets) ==
    LET source_info  == asset_info(asset)
        target_asset == dict_get(target_assets, asset.name)
        target_info  == get_asset_info(target_asset)
    IN  IF asset_key(asset) \notin DOMAIN ledger
            THEN [need_sync |-> TRUE, rule |-> "ledger_missing"]
        ELSE IF target_asset = None
            THEN [need_sync |-> FALSE, rule |-> "skip"]
        ELSE IF source_info.size # target_info.size
            THEN [need_sync |-> TRUE, rule |-> "size"]
        ELSE IF source_info.updated_at # None /\ target_info.updated_at # None
                /\ timestamp(fromisoformat(source_info.updated_at))
                     > timestamp(fromisoformat(target_info.updated_at))
            THEN [need_sync |-> TRUE, rule |-> "newer"]
        ELSE [need_sync |-> FALSE, rule |-> "skip"]

\* lines 194-216: need_sync and the branch that set it, for the source asset
\* `asset`, the ledger rows of its release and the listed target assets
need_sync(ledger, asset, target_assets) ==
    LET source_info  == asset_info(asset)
        target_asset == dict_get(target_assets, asset.name)
        target_info  == get_asset_info(target_asset)
    IN  IF asset_key(asset) \notin DOMAIN ledger
            THEN [need_sync |-> TRUE, rule |-> "ledger_missing"]
        ELSE IF target_asset = None
            THEN [need_sync |-> TRUE, rule |-> "target_missing"]
        ELSE IF source_info.size # target_info.size
            THEN [need_sync |-> TRUE, rule |-> "size"]
        ELSE IF source_info.updated_at # None /\ target_info.updated_at # None
                /\ timestamp(fromisoformat(source_info.updated_at))
                     > timestamp(fromisoformat(target_info.updated_at))
            THEN [need_sync |-> TRUE, rule |-> "newer"]
        ELSE [need_sync |-> FALSE, rule |-> "skip"]

(***************************************************************************)
(* 4. Release reconciler, source archives, and the run of main             *)
(***************************************************************************)
\* lines 121-126: the two archive names of a tag
SourceFiles(tag) == << <<"SourceCode_", tag, ".zip">>, <<"SourceCode_", tag, ".tar.gz">> >>

\* line 223 and line 145: the path of the temp file of a transfer
asset_temp_path(asset) == <<"temp_", asset.id, asset.name>>
source_temp_path(filename) == <<"temp_", filename>>

\* target_repo.get_branch(default_branch).commit.sha (line 309), and the sha
\* of a commit that is not the tip of the default branch
BranchTip == "tip"
OldCommit == "old"

\* name or tag_name (line 289) and body or "" (line 314): None and the empty
\* text are both false
falsy(v) == v = None \/ v = Text(<< >>)

\* the release a second creator, working on the same target at the same
\* time, makes for the tag
OthersRelease ==
    [name |-> Text(<<"theirs">>), body |-> Text(<< >>), draft |-> FALSE, prerelease |-> FALSE,
     assets |-> EmptyDict]

get_or_create_release_NoTagRef(repo, refs, rel, o) ==
    LET tag == rel.tag_name
        created == [name |-> IF falsy(rel.name) THEN Text(tag) ELSE rel.name,
                    body |-> IF falsy(rel.body) THEN Text(<< >>) ELSE rel.body,
                    draft |-> rel.draft, prerelease |-> rel.prerelease, assets |-> EmptyDict]
    IN  IF o.list1 = "fail"
            THEN [raised |-> TRUE, ret |-> None, repo |-> repo, refs |-> refs,
                  did |-> "list_failed", calls |-> <<"get_releases">>]
        ELSE IF tag \in DOMAIN repo
            THEN [raised |-> FALSE, ret |-> tag, repo |-> repo, refs |-> refs,
                  did |-> "found", calls |-> <<"get_releases">>]
        ELSE [raised |-> FALSE, ret |-> tag, repo |-> DictSet(repo, tag, created),
              refs |-> refs, did |-> "created",
              calls |-> <<"get_releases", "create_git_release">>]

get_or_create_release_Overwrites(repo, refs, rel, o) ==
    LET tag == rel.tag_name
        created == [name |-> IF falsy(rel.name) THEN Text(tag) ELSE rel.name,
                    body |-> IF falsy(rel.body) THEN Text(<< >>) ELSE rel.body,
                    draft |-> rel.draft, prerelease |-> rel.prerelease, assets |-> EmptyDict]
    IN  IF o.list1 = "fail"
            THEN [raised |-> TRUE, ret |-> None, repo |-> repo, refs |-> refs,
                  did |-> "list_failed", calls |-> <<"get_releases">>]
        ELSE [raised |-> FALSE, ret |-> tag,
              repo |-> DictSet(repo, tag,
                               IF tag \in DOMAIN repo
                                  THEN [created EXCEPT !.assets = repo[tag].assets]
                                  ELSE created),
              refs |-> refs, did |-> IF tag \in DOMAIN repo THEN "found" ELSE "created",
              calls |-> <<"get_releases">>]

get_or_create_release_NoSecondLook(repo, refs, rel, o) ==
    LET tag == rel.tag_name
        created == [name |-> IF falsy(rel.name) THEN Text(tag) ELSE rel.name,
                    body |-> IF falsy(rel.body) THEN Text(<< >>) ELSE rel.body,
                    draft |-> rel.draft, prerelease |-> rel.prerelease, assets |-> EmptyDict]
        theirs == o.other = "release"
    IN  IF o.list1 = "fail"
            THEN [raised |-> TRUE, ret |-> None, repo |-> repo, refs |-> refs,
                  did |-> "list_failed", calls |-> <<"get_releases">>]
        ELSE IF tag \in DOMAIN repo
            THEN [raised |-> FALSE, ret |-> tag, repo |-> repo, refs |-> refs,
                  did |-> "found", calls |-> <<"get_releases">>]
        ELSE IF o.rel = "ok" /\ ~theirs
            THEN [raised |-> FALSE, ret |-> tag, repo |-> DictSet(repo, tag, created),
                  refs |-> SetDefault(refs, tag, BranchTip), did |-> "created",
                  calls |-> <<"get_releases", "get_git_ref", "create_git_release">>]
        ELSE [raised |-> FALSE, ret |-> None,
              repo |-> IF theirs THEN DictSet(repo, tag, OthersRelease) ELSE repo,
              refs |-> refs, did |-> "create_failed",
              calls |-> <<"get_releases", "get_git_ref", "create_git_release">>]

\* get_or_create_release (lines 287-324) for the source release rel, on the
\* target's releases `repo` and its tag refs `refs` (tag -> sha).  o says
\* which calls of the platform raise: list1 (line 293), ref (lines 305-310),
\* rel (line 313), list2 (line 320), and whether a second creator makes the
\* release of the tag while this call is between its first listing and its
\* own creation (other), in which case the creation of line 313 fails.
\* Lines 293 and 320 are outside / after the try: what they raise leaves the
\* function.  calls is the sequence of the calls made on the platform.
get_or_create_release(repo, refs, rel, o) ==
    LET tag == rel.tag_name
        release_name == IF falsy(rel.name) THEN Text(tag) ELSE rel.name
        message == IF falsy(rel.body) THEN Text(<< >>) ELSE rel.body
        hadRef == tag \in DOMAIN refs
        refOk == hadRef \/ o.ref = "ok"
        refs1 == IF refOk THEN SetDefault(refs, tag, BranchTip) ELSE refs
        refCalls == IF hadRef THEN <<"get_git_ref">>
                    ELSE <<"get_git_ref", "get_branch", "create_git_ref">>
        relCalls == IF refOk THEN <<"create_git_release">> ELSE << >>
        theirs == o.other = "release"
        created == [name |-> release_name, body |-> message, draft |-> rel.draft,
                    prerelease |-> rel.prerelease, assets |-> EmptyDict]
        repo2 == IF theirs THEN DictSet(repo, tag, OthersRelease) ELSE repo
        refs2 == IF theirs THEN SetDefault(refs1, tag, BranchTip) ELSE refs1
    IN  IF o.list1 = "fail"
            THEN [raised |-> TRUE, ret |-> None, repo |-> repo, refs |-> refs,
                  did |-> "list_failed", calls |-> <<"get_releases">>]
        ELSE IF tag \in DOMAIN repo
            THEN [raised |-> FALSE, ret |-> tag, repo |-> repo, refs |-> refs,
                  did |-> "found", calls |-> <<"get_releases">>]
        ELSE IF refOk /\ o.rel = "ok" /\ ~theirs
            THEN [raised |-> FALSE, ret |-> tag, repo |-> DictSet(repo, tag, created),
                  refs |-> refs1, did |-> "created",
                  calls |-> <<"get_releases">> \o refCalls \o relCalls]
        ELSE IF o.list2 = "fail"
            THEN [raised |-> TRUE, ret |-> None, repo |-> repo2, refs |-> refs2,
                  did |-> "list_failed",
                  calls |-> <<"get_releases">> \o refCalls \o relCalls \o <<"get_releases">>]
        ELSE IF theirs
            THEN [raised |-> FALSE, ret |-> tag, repo |-> repo2, refs |-> refs2,
                  did |-> "found_second",
                  calls |-> <<"get_releases">> \o refCalls \o relCalls \o <<"get_releases">>]
        ELSE [raised |-> FALSE, ret |-> None, repo |-> repo2, refs |-> refs2,
              did |-> "create_failed",
              calls |-> <<"get_releases">> \o refCalls \o relCalls \o <<"get_releases">>]

ReleaseOutcomes ==
    [list1 : {"ok", "fail"}, ref : {"ok", "fail"}, rel : {"ok", "fail"}, list2 : {"ok", "fail"},
     other : {"none", "release"}]

\* download_file(url, save_path) (lines 253-284) on the temp files, for a
\* source content of `size` bytes.  An existing file is taken as it is.
\* how = "ok": the file is written whole; "fail": the request or a write
\* raised, the file is removed and the exception re-raised.
download_file(files, path, size, how) ==
    IF path \in DOMAIN files
        THEN [raised |-> FALSE, skipped |-> TRUE, files |-> files]
        ELSE IF how = "ok"
                THEN [raised |-> FALSE, skipped |-> FALSE,
                      files |-> DictSet(files, path, [size |-> size, whole |-> TRUE])]
                ELSE [raised |-> TRUE, skipped |-> FALSE,
                      files |-> [q \in (DOMAIN files) \ {path} |-> files[q]]]

archive_present_Never(existing_assets, filename) == FALSE

\* line 132: filename in existing_assets
archive_present(existing_assets, filename) == filename \in DOMAIN existing_assets

\* os.remove(temp_path) if it exists (lines 164-165, 246-247)
remove_temp(files, path) == [q \in (DOMAIN files) \ {path} |-> files[q]]

\* lines 136-139 and 153-156: the ledger row of a source archive
set_source_code(sd, tag, filename, now) ==
    [sd EXCEPT !.source_codes =
        DictSet(@, tag, DictSet(@[tag], filename, [exists |-> TRUE, synced_at |-> now]))]

set_asset_row_SourceValues(sd, source_id, asset, uploaded, now) ==
    [sd EXCEPT !.assets =
        DictSet(@, source_id,
                DictSet(@[source_id], asset_key(asset),
                        [name |-> asset.name,
                         size |-> asset_info(asset).size,
                         updated_at |-> asset_info(asset).updated_at,
                         synced_at |-> now]))]

\* lines 232-238: the ledger row of an asset, from the uploaded asset
set_asset_row(sd, source_id, asset, uploaded, now) ==
    [sd EXCEPT !.assets =
        DictSet(@, source_id,
                DictSet(@[source_id], asset_key(asset),
                        [name |-> asset.name,
                         size |-> get_asset_info(uploaded).size,
                         updated_at |-> get_asset_info(uploaded).updated_at,
                         synced_at |-> now]))]

\* lines 357-360
set_release_row(sd, source_id, tag, now) ==
    [sd EXCEPT !.releases =
        DictSet(@, source_id, [tag_name |-> tag, fully_synced_at |-> now])]

NoLoad == [raised |-> FALSE, value |-> "none"]

(***************************************************************************)
(* The retry_upload call in progress, as a record and back.                *)
(***************************************************************************)
UpState ==
    [assets |-> target_repo[up_tag].assets, retries |-> retry_count,
     attempt |-> attempt, uploads |-> uploads, sleeps |-> sleeps,
     lastUp |-> lastUp, lastSlept |-> lastSlept, handler |-> handler,
     conflicts |-> conflicts, status |-> upc, result |-> result]

SetUpState(st) ==
    /\ target_repo' = [target_repo EXCEPT ![up_tag].assets = st.assets]
    /\ attempt' = st.attempt
    /\ uploads' = st.uploads
    /\ sleeps' = st.sleeps
    /\ lastUp' = st.lastUp
    /\ lastSlept' = st.lastSlept
    /\ handler' = st.handler
    /\ conflicts' = st.conflicts
    /\ upc' = st.status
    /\ result' = st.result

\* the call retry_upload(target_release, file_path, name, content_type)
\* is entered; with RETRY_COUNT <= 0 the loop body never runs
EnterUpload(tag, name, file) ==
    /\ up_tag' = tag
    /\ up_name' = name
    /\ up_file' = file
    /\ attempt' = 0
    /\ uploads' = 0
    /\ sleeps' = 0
    /\ conflicts' = 0
    /\ lastUp' = "none_yet"
    /\ lastSlept' = FALSE
    /\ handler' = "not_run"
    /\ upc' = IF retry_count > 0 THEN "attempt" ELSE "returned"
    /\ result' = IF retry_count > 0 THEN NotYet ELSE None

\* the variables of a retry_upload call, once its result has been taken
LeaveUpload ==
    /\ upc' = "idle"
    /\ up_tag' = Tag(1)
    /\ up_name' = AppZip
    /\ up_file' = [size |-> 1]
    /\ attempt' = 0
    /\ uploads' = 0
    /\ sleeps' = 0
    /\ conflicts' = 0
    /\ lastUp' = "none_yet"
    /\ lastSlept' = FALSE
    /\ handler' = "not_run"
    /\ result' = NotYet

UploadIdle ==
    /\ upc = "idle"
    /\ up_tag = Tag(1)
    /\ up_name = AppZip
    /\ up_file = [size |-> 1]
    /\ attempt = 0
    /\ uploads = 0
    /\ sleeps = 0
    /\ conflicts = 0
    /\ lastUp = "none_yet"
    /\ lastSlept = FALSE
    /\ handler = "not_run"
    /\ result = NotYet

LedgerIdle ==
    /\ lpc = "idle"
    /\ saving = EmptyLedger
    /\ prePrimary = synced_data_file
    /\ preBackup = synced_data_backup
    /\ saveFailed = FALSE
    /\ crashedAt = "none"
    /\ loaded = NoLoad

MainIdle ==
    /\ source_repo = << >>
    /\ target_refs = EmptyDict
    /\ temp_files = EmptyDict
    /\ proc = [pc |-> "idle"]
    /\ hist = [transferred |-> FALSE, clean |-> FALSE, prevClean |-> FALSE, faults |-> 0,
               synced |-> {}]

DecideIdle ==
    /\ dec_pc = "decided"
    /\ dec_ledger = EmptyDict
    /\ dec_asset = [name |-> AppZip, size |-> 1, updated_at |-> None]
    /\ dec_target_assets = EmptyDict
    /\ dec_out = [need_sync |-> TRUE, rule |-> "ledger_missing"]

(***************************************************************************)
(* SpecUpload: calls of retry_upload on one target release.                *)
(***************************************************************************)
\* a target asset as the platform lists it
TargetAssets == [size : 1..MaxSize, updated_at : {DateTime(0, 0)}]

\* every dict of assets a target release can hold
AssetDicts == UNION {[S -> TargetAssets] : S \in SUBSET AssetNames}

Release(assets) ==
    [name |-> Text(<<"n">>), body |-> Text(<<"b">>), draft |-> FALSE, prerelease |-> FALSE,
     assets |-> assets]

InitUpload ==
    /\ synced_data_file = Absent
    /\ synced_data_backup = Absent
    /\ temp_file = Absent
    /\ LedgerIdle
    /\ retry_count \in 0..MaxRetryCount
    /\ \E d \in AssetDicts : target_repo = [t \in {Tag(1)} |-> Release(d)]
    /\ clock = 1
    /\ UploadIdle
    /\ DecideIdle
    /\ MainIdle

BeginUpload ==
    /\ upc = "idle"
    /\ \E size \in 1..MaxSize : EnterUpload(Tag(1), AppZip, [size |-> size])
    /\ UNCHANGED <<retry_count, remote, notUpload>>

\* one iteration of the loop of retry_upload, lines 88-108 (and 109-110
\* after the last one)
UploadAttempt ==
    /\ upc = "attempt"
    /\ \E o \in Outcomes :
          /\ UploadPossible(target_repo[up_tag].assets, up_name, o.list1, o.del1, o.up)
          /\ SetUpState(retry_upload_iteration(UpState, up_file, up_name, clock, o))
    /\ UNCHANGED <<retry_count, clock, uploadArgs, notUpload>>

\* the caller takes the result
EndUpload ==
    /\ upc \in {"returned", "raised"}
    /\ upc' = "idle"
    /\ UNCHANGED <<uploadArgs, attempt, uploads, sleeps, lastUp, lastSlept, handler,
                   conflicts, result>>
    /\ UNCHANGED <<retry_count, remote, notUpload>>

NextUpload ==
    \/ BeginUpload
    \/ UploadAttempt
    \/ EndUpload

SpecUpload == InitUpload /\ [][NextUpload]_vars

\* the loop of retry_upload is not blocked: time.sleep returns, every call
\* of the platform returns or raises
SpecUploadFair == SpecUpload /\ WF_vars(UploadAttempt)

(***************************************************************************)
(* SpecDecide: need_sync applied to every drawn input.                     *)
(***************************************************************************)
\* offsets from UTC of the zones a timestamp can be reported in
TzOffsets == {0, 1}

\* a timestamp as the platform can report it, or None
TimeStamps == {None} \cup {DateTime(w, o) : w \in 0..MaxTime, o \in TzOffsets}

\* the source asset of the decision
SourceAssets == [name : {AppZip}, size : 1..MaxSize, updated_at : TimeStamps]

\* a ledger row of an asset, lines 233-238
LedgerRow(name, info, now) ==
    [name |-> name, size |-> info.size, updated_at |-> info.updated_at, synced_at |-> now]

\* the ledger rows a release can have for app.zip: one per size seen
LedgerRows ==
    {[k \in {<<AppZip, "_", n>> : n \in S} |->
        LedgerRow(AppZip, [size |-> k[3], updated_at |-> None], 0)] : S \in SUBSET (1..MaxSize)}

\* the listed target assets: app.zip absent, or present with a size and a time
ListedTargets ==
    {EmptyDict} \cup
    {[n \in {AppZip} |-> [size |-> z, updated_at |-> t]] : z \in 1..MaxSize, t \in TimeStamps}

InitDecide ==
    /\ synced_data_file = Absent
    /\ synced_data_backup = Absent
    /\ temp_file = Absent
    /\ LedgerIdle
    /\ retry_count = RETRY_COUNT_DEFAULT
    /\ target_repo = EmptyDict
    /\ clock = 1
    /\ UploadIdle
    /\ dec_pc = "input"
    /\ dec_ledger \in LedgerRows
    /\ dec_asset \in SourceAssets
    /\ dec_target_assets \in ListedTargets
    /\ dec_out = [need_sync |-> FALSE, rule |-> "none"]
    /\ MainIdle

\* lines 194-216 for the drawn asset
Decide ==
    /\ dec_pc = "input"
    /\ dec_out' = need_sync(dec_ledger, dec_asset, dec_target_assets)
    /\ dec_pc' = "decided"
    /\ UNCHANGED <<dec_ledger, dec_asset, dec_target_assets, notDecide>>

NextDecide == Decide

SpecDecide == InitDecide /\ [][NextDecide]_vars

(***************************************************************************)
(* SpecLedger: one process saving and loading, interrupted at any point.   *)
(***************************************************************************)
\* the ledger after n releases were marked fully synced
GenLedger(n) ==
    [EmptyLedger EXCEPT !.releases =
        [i \in {Str(k) : k \in 1..n} |-> [tag_name |-> Tag(i[2]), fully_synced_at |-> i[2]]]]

LedgerDocs == {GenLedger(n) : n \in 0..MaxGen}

FileStates == {Absent, Garbage} \cup {json_dump(d) : d \in LedgerDocs}

InitLedger ==
    /\ synced_data_file \in FileStates
    /\ synced_data_backup \in FileStates
    /\ temp_file \in FileStates
    /\ lpc = "idle"
    /\ saving = EmptyLedger
    /\ prePrimary = synced_data_file
    /\ preBackup = synced_data_backup
    /\ saveFailed = FALSE
    /\ crashedAt = "none"
    /\ loaded = NoLoad
    /\ retry_count = RETRY_COUNT_DEFAULT
    /\ target_repo = EmptyDict
    /\ clock = 1
    /\ UploadIdle
    /\ DecideIdle
    /\ MainIdle

SetFiles(fs) ==
    /\ synced_data_file' = fs.primary
    /\ synced_data_backup' = fs.backup
    /\ temp_file' = fs.temp

CurFS == FS(synced_data_file, synced_data_backup, temp_file)

\* a call save_synced_data(data) begins
BeginSave ==
    /\ UNCHANGED notLedger
    /\ lpc = "idle"
    /\ \E data \in LedgerDocs : saving' = data
    /\ lpc' = "write"
    /\ prePrimary' = synced_data_file
    /\ preBackup' = synced_data_backup
    /\ saveFailed' = FALSE
    /\ crashedAt' = "none"
    /\ loaded' = NoLoad
    /\ UNCHANGED ledgerFiles

\* line 48-49
WriteTemp ==
    /\ UNCHANGED notLedger
    /\ lpc = "write"
    /\ \E how \in {"ok", "open_fail", "write_fail"} :
          /\ SetFiles(save_write_temp(CurFS, saving, how))
          /\ lpc' = IF how = "ok" THEN "backup" ELSE "except"
    /\ UNCHANGED <<saving, prePrimary, preBackup, saveFailed, crashedAt, loaded>>

\* line 50-51
PromoteBackup ==
    /\ UNCHANGED notLedger
    /\ lpc = "backup"
    /\ \/ /\ SetFiles(save_promote_backup(CurFS))
          /\ lpc' = "promote"
       \/ /\ exists(synced_data_file)      \* os.replace raised
          /\ lpc' = "except"
          /\ UNCHANGED ledgerFiles
    /\ UNCHANGED <<saving, prePrimary, preBackup, saveFailed, crashedAt, loaded>>

\* line 52-53
PromoteTemp ==
    /\ UNCHANGED notLedger
    /\ lpc = "promote"
    /\ \/ /\ SetFiles(save_promote_temp(CurFS))
          /\ lpc' = "returned"
       \/ /\ lpc' = "except"               \* os.replace raised
          /\ UNCHANGED ledgerFiles
    /\ UNCHANGED <<saving, prePrimary, preBackup, saveFailed, crashedAt, loaded>>

\* line 54-57
SaveExcept ==
    /\ UNCHANGED notLedger
    /\ lpc = "except"
    /\ SetFiles(save_cleanup(CurFS))
    /\ lpc' = "returned"
    /\ saveFailed' = TRUE
    /\ UNCHANGED <<saving, prePrimary, preBackup, crashedAt, loaded>>

\* the process is killed; a kill during the dump leaves a truncated temp file
Crash ==
    /\ UNCHANGED notLedger
    /\ lpc \in {"write", "backup", "promote", "except", "returned"}
    /\ crashedAt' = lpc
    /\ lpc' = "crashed"
    /\ \/ UNCHANGED ledgerFiles
       \/ /\ lpc = "write"
          /\ SetFiles(save_write_temp(CurFS, saving, "write_fail"))
    /\ UNCHANGED <<saving, prePrimary, preBackup, saveFailed, loaded>>

\* load_synced_data() of the next process (or of this one, after the save)
Load ==
    /\ UNCHANGED notLedger
    /\ lpc \in {"idle", "returned", "crashed"}
    /\ loaded' = load_synced_data(synced_data_file, synced_data_backup)
    /\ lpc' = "loaded"
    /\ UNCHANGED ledgerFiles
    /\ UNCHANGED <<saving, prePrimary, preBackup, saveFailed, crashedAt>>

\* the process goes on to its next save
Resume ==
    /\ UNCHANGED notLedger
    /\ lpc = "loaded"
    /\ lpc' = "idle"
    /\ UNCHANGED ledgerFiles
    /\ UNCHANGED <<saving, prePrimary, preBackup, saveFailed, crashedAt, loaded>>

NextLedger ==
    \/ BeginSave
    \/ WriteTemp
    \/ PromoteBackup
    \/ PromoteTemp
    \/ SaveExcept
    \/ Crash
    \/ Load
    \/ Resume

SpecLedger == InitLedger /\ [][NextLedger]_vars

(***************************************************************************)
(* SpecRelease: one call of get_or_create_release on drawn inputs.         *)
(***************************************************************************)
\* the values release.name and release.body can have: unset, empty, a text
ReleaseTexts == {None, Text(<< >>), Text(<<"n">>)}

\* the source releases of the call: tag v1 with every metadata
CallSourceReleases ==
    {[id |-> 1, tag_name |-> Tag(1), name |-> n, body |-> b, draft |-> d, prerelease |-> p,
      assets |-> << >>] : n \in ReleaseTexts, b \in ReleaseTexts, d \in BOOLEAN, p \in BOOLEAN}

\* a release the target made for itself, with its own metadata and an asset
TargetsOwnRelease ==
    [name |-> Text(<<"kept">>), body |-> Text(<<"kept body">>), draft |-> TRUE,
     prerelease |-> FALSE,
     assets |-> [n \in {AppZip} |-> [size |-> 1, updated_at |-> DateTime(0, 0)]]]

\* the target's releases before the call: none, one for the tag, one for
\* another tag
CallTargets ==
    {EmptyDict, [t \in {Tag(1)} |-> TargetsOwnRelease], [t \in {Tag(2)} |-> TargetsOwnRelease]}

\* the target's tag refs before the call
CallRefs == {EmptyDict, [t \in {Tag(1)} |-> OldCommit], [t \in {Tag(1)} |-> BranchTip]}

InitRelease ==
    /\ synced_data_file = Absent
    /\ synced_data_backup = Absent
    /\ temp_file = Absent
    /\ LedgerIdle
    /\ DecideIdle
    /\ UploadIdle
    /\ retry_count = RETRY_COUNT_DEFAULT
    /\ clock = 1
    /\ target_repo \in CallTargets
    /\ target_refs \in CallRefs
    /\ source_repo \in {<<r>> : r \in CallSourceReleases}
    /\ temp_files = EmptyDict
    /\ proc = [pc |-> "call"]
    /\ hist = [transferred |-> FALSE, clean |-> FALSE, prevClean |-> FALSE, faults |-> 0,
               synced |-> {}]

\* get_or_create_release(target_repo, tag_name, release.name, release.body,
\* release.draft, release.prerelease), as main calls it at lines 344-346
CallGetOrCreateRelease ==
    /\ proc.pc = "call"
    /\ \E o \in ReleaseOutcomes :
          LET r == get_or_create_release(target_repo, target_refs, source_repo[1], o)
          IN  /\ target_repo' = r.repo
              /\ target_refs' = r.refs
              /\ proc' = [pc |-> IF r.raised THEN "raised" ELSE "returned", ret |-> r.ret,
                          gcr |-> [did |-> r.did, calls |-> r.calls]]
    /\ UNCHANGED <<ledgerFiles, retry_count, clock, uploadProc, source_repo, temp_files, hist,
                   notMain>>

NextRelease == CallGetOrCreateRelease

SpecRelease == InitRelease /\ [][NextRelease]_vars

(***************************************************************************)
(* Spec: runs of main, one after the other, each possibly killed.          *)
(***************************************************************************)
NoItem == [kind |-> "none"]

\* what the last call of get_or_create_release did: no call yet
NoCall == [did |-> "none", calls |-> << >>]

\* no process is running
Dead ==
    [pc |-> "idle", synced_data |-> EmptyLedger, ri |-> 1, target_release |-> None,
     fi |-> 1, existing_assets |-> EmptyDict, ai |-> 1, target_assets |-> EmptyDict,
     item |-> NoItem, gcr |-> NoCall]

\* the i-th source release, with one asset app.zip of the given size
SourceRelease(i, size) ==
    [id |-> i, tag_name |-> Tag(i), name |-> Text(<<"n">>), body |-> Text(<<"b">>), draft |-> FALSE,
     prerelease |-> FALSE,
     assets |-> << [id |-> i, name |-> AppZip, size |-> size,
                    updated_at |-> DateTime(1, 0), content_type |-> None] >>]

SourceRepos ==
    UNION {{[i \in 1..n |-> SourceRelease(i, f[i])] : f \in [1..n -> 1..MaxSize]} :
           n \in 1..MaxReleases}

\* what a target release can hold before the first run: app.zip absent, or
\* present with some size and a time before or after the source's; the zip
\* archive of the tag absent or present
MainTargetDicts(tag) ==
    LET apps == {EmptyDict} \cup
                {[n \in {AppZip} |-> [size |-> z, updated_at |-> DateTime(t, 0)]] :
                    z \in 1..MaxSize, t \in {0, MaxTime}}
        zip  == SourceFiles(tag)[1]
    IN  apps \cup {DictSet(d, zip, [size |-> 1, updated_at |-> DateTime(0, 0)]) : d \in apps}

\* the target repository before the first run: the release of tag 1 absent or
\* present; the releases of later tags absent
MainTargets ==
    {EmptyDict} \cup {[t \in {Tag(1)} |-> Release(d)] : d \in MainTargetDicts(Tag(1))}

\* a JSON document that is no ledger of this program: an object without the
\* assets and source_codes namespaces
ForeignDoc == [releases |-> EmptyDict]

\* synced_data[ns] raises KeyError when the loaded document has no such key
\* (lines 128, 177, 357)
has_namespace(sd, ns) == ns \in DOMAIN sd

\* the ledgers the primary file can hold before the first run: rows of
\* app.zip under release 1, for any set of sizes
MainLedgers ==
    {[EmptyLedger EXCEPT !.assets = IF r = EmptyDict THEN EmptyDict
                                      ELSE [i \in {Str(1)} |-> r]] : r \in LedgerRows}

Init ==
    /\ synced_data_file \in {Absent, Garbage, json_dump(ForeignDoc)}
                                \cup {json_dump(l) : l \in MainLedgers}
    /\ synced_data_backup = Absent
    /\ temp_file = Absent
    /\ LedgerIdle
    /\ DecideIdle
    /\ UploadIdle
    /\ retry_count \in 1..MaxMainRetry
    /\ target_repo \in MainTargets
    /\ target_refs = [t \in DOMAIN target_repo |-> OldCommit]
    /\ clock = MaxTime + 1
    /\ source_repo \in SourceRepos
    /\ temp_files = EmptyDict
    /\ proc = Dead
    /\ hist = [transferred |-> FALSE, clean |-> FALSE, prevClean |-> FALSE, faults |-> 0,
               synced |-> {}]

\* the except / finally of main (lines 368-375) is entered
Abort(p) == [Dead EXCEPT !.pc = "cleanup"]

\* a call raised (or the process was killed): one more fault of the behaviour
Failed(h) == [h EXCEPT !.clean = FALSE, !.faults = @ + 1]

CanFail == hist.faults < MaxFaults

\* lines 328-336: load the ledger, open the repositories, list the source
\* releases
StartRun ==
    /\ proc.pc = "idle"
    /\ \E listing \in {"ok", "fail"} :
          /\ listing = "fail" => CanFail
          /\ proc' = IF listing = "ok"
                        THEN [Dead EXCEPT !.pc = "release",
                                 !.synced_data =
                                    load_synced_data(synced_data_file, synced_data_backup).value]
                        ELSE Abort(Dead)
          /\ hist' = IF listing = "ok"
                        THEN [hist EXCEPT !.transferred = FALSE, !.clean = TRUE]
                        ELSE Failed([hist EXCEPT !.transferred = FALSE])
    /\ UNCHANGED <<ledgerFiles, retry_count, remote, uploadProc, source_repo, target_refs,
                   temp_files, notMain>>

\* lines 338-350: the next source release and its target release
GetOrCreateRelease ==
    /\ proc.pc = "release"
    /\ proc.ri <= Len(source_repo)
    /\ \E o \in ReleaseOutcomes :
          LET r == get_or_create_release(target_repo, target_refs, source_repo[proc.ri], o)
          IN  /\ r.did \notin {"found", "created"} => CanFail
              /\ target_repo' = r.repo
              /\ target_refs' = r.refs
              /\ proc' = IF r.raised THEN Abort(proc)
                         ELSE IF r.ret = None
                            THEN [proc EXCEPT !.ri = @ + 1,
                                              !.gcr = [did |-> r.did, calls |-> r.calls]]
                         ELSE [proc EXCEPT !.pc = "source_code", !.target_release = r.ret,
                                           !.gcr = [did |-> r.did, calls |-> r.calls]]
              /\ hist' = IF r.did \in {"found", "created"} THEN hist ELSE Failed(hist)
    /\ UNCHANGED <<ledgerFiles, retry_count, clock, uploadProc, source_repo, temp_files,
                   notMain>>

\* lines 116-128: sync_source_code lists the target release's assets
SourceCodeBegin ==
    /\ proc.pc = "source_code"
    /\ has_namespace(proc.synced_data, "source_codes")
    /\ \E listing \in {"ok", "fail"} :
          /\ listing = "fail" => CanFail
          /\ proc' = IF listing = "ok"
                        THEN [proc EXCEPT !.pc = "source_file", !.fi = 1, !.gcr = NoCall,
                                 !.existing_assets = target_repo[proc.target_release].assets,
                                 !.synced_data.source_codes =
                                    SetDefault(@, source_repo[proc.ri].tag_name, EmptyDict)]
                        ELSE Abort(proc)
          /\ hist' = IF listing = "ok" THEN hist ELSE Failed(hist)
    /\ UNCHANGED <<ledgerFiles, retry_count, remote, uploadProc, source_repo, target_refs,
                   temp_files, notMain>>

\* lines 130-145: one archive name; present in the target: record and skip
SourceFile ==
    /\ proc.pc = "source_file"
    /\ proc.fi <= Len(SourceFiles(source_repo[proc.ri].tag_name))
    /\ LET tag == source_repo[proc.ri].tag_name
           filename == SourceFiles(tag)[proc.fi]
       IN  IF archive_present(proc.existing_assets, filename)
              THEN IF filename \notin DOMAIN proc.synced_data.source_codes[tag]
                      THEN \E how \in SaveOutcomes :
                              LET sd == set_source_code(proc.synced_data, tag, filename, clock)
                              IN  /\ how # "ok" => CanFail
                                  /\ SetFiles(save_synced_data(CurFS, sd, how))
                                  /\ proc' = [proc EXCEPT !.synced_data = sd, !.fi = @ + 1]
                                  /\ hist' = IF how = "ok" THEN hist ELSE Failed(hist)
                      ELSE /\ proc' = [proc EXCEPT !.fi = @ + 1]
                           /\ UNCHANGED <<ledgerFiles, hist>>
              ELSE /\ proc' = [proc EXCEPT !.pc = "download",
                                  !.item = [kind |-> "source", name |-> filename,
                                            path |-> source_temp_path(filename),
                                            size |-> MaxSize]]
                   /\ UNCHANGED <<ledgerFiles, hist>>
    /\ UNCHANGED <<retry_count, remote, uploadProc, source_repo, target_refs, temp_files,
                   notMain>>

\* lines 174-177: sync_release_assets lists the source and the target assets
AssetsBegin ==
    /\ proc.pc = "source_file"
    /\ proc.fi > Len(SourceFiles(source_repo[proc.ri].tag_name))
    /\ has_namespace(proc.synced_data, "assets")
    /\ \E listing \in {"ok", "fail"} :
          /\ listing = "fail" => CanFail
          /\ proc' = IF listing = "ok"
                        THEN [proc EXCEPT !.pc = "asset", !.ai = 1, !.fi = 1,
                                 !.existing_assets = EmptyDict,
                                 !.target_assets = target_repo[proc.target_release].assets,
                                 !.synced_data.assets =
                                    SetDefault(@, Str(source_repo[proc.ri].id), EmptyDict)]
                        ELSE Abort(proc)
          /\ hist' = IF listing = "ok" THEN hist ELSE Failed(hist)
    /\ UNCHANGED <<ledgerFiles, retry_count, remote, uploadProc, source_repo, target_refs,
                   temp_files, notMain>>

\* lines 180-223: one source asset: skip it or start its transfer
Asset ==
    /\ proc.pc = "asset"
    /\ proc.ai <= Len(source_repo[proc.ri].assets)
    /\ LET asset == source_repo[proc.ri].assets[proc.ai]
           rows  == proc.synced_data.assets[Str(source_repo[proc.ri].id)]
       IN  proc' = IF need_sync(rows, asset, proc.target_assets).need_sync
                      THEN [proc EXCEPT !.pc = "download",
                               !.item = [kind |-> "asset", name |-> asset.name,
                                         path |-> asset_temp_path(asset),
                                         size |-> asset.size]]
                      ELSE [proc EXCEPT !.ai = @ + 1]
    /\ UNCHANGED <<ledgerFiles, retry_count, remote, uploadProc, source_repo, target_refs,
                   temp_files, hist, notMain>>

\* the loop of the transfer's caller goes on to its next archive or asset
NextItem(p) ==
    IF p.item.kind = "source"
        THEN [p EXCEPT !.pc = "source_file", !.fi = @ + 1, !.item = NoItem]
        ELSE [p EXCEPT !.pc = "asset", !.ai = @ + 1, !.item = NoItem]

\* lines 147 / 225: download_file; when it raises, the except and finally of
\* the caller run and the loop goes on
Download ==
    /\ proc.pc = "download"
    /\ \E how \in {"ok", "fail"} :
          LET d == download_file(temp_files, proc.item.path, proc.item.size, how)
          IN  /\ d.skipped => how = "ok"
              /\ d.raised => CanFail
              /\ IF d.raised
                    THEN /\ temp_files' = remove_temp(d.files, proc.item.path)
                         /\ proc' = NextItem(proc)
                         /\ hist' = Failed([hist EXCEPT !.transferred = TRUE])
                         /\ UNCHANGED uploadProc
                    ELSE /\ temp_files' = d.files
                         /\ proc' = [proc EXCEPT !.pc = "upload"]
                         /\ hist' = [hist EXCEPT !.transferred = TRUE]
                         /\ EnterUpload(proc.target_release, proc.item.name,
                                        [size |-> d.files[proc.item.path].size])
    /\ UNCHANGED <<ledgerFiles, retry_count, remote, source_repo, target_refs, notMain>>

\* one iteration of the loop of retry_upload, called at line 148 / 226
MainUploadAttempt ==
    /\ proc.pc = "upload"
    /\ upc = "attempt"
    /\ \E o \in Outcomes :
          /\ UploadPossible(target_repo[up_tag].assets, up_name, o.list1, o.del1, o.up)
          /\ LET st == retry_upload_iteration(UpState, up_file, up_name, clock, o)
             IN  /\ st.lastUp # "ok" => CanFail
                 /\ SetUpState(st)
                 /\ hist' = IF st.lastUp = "ok" THEN hist ELSE Failed(hist)
    /\ UNCHANGED <<ledgerFiles, retry_count, clock, uploadArgs, source_repo, target_refs,
                   temp_files, proc, notMain>>

\* lines 152-165 / 230-247: the result of retry_upload is taken: the ledger
\* row is written and saved after a success, and the temp file removed
Record ==
    /\ proc.pc = "upload"
    /\ upc \in {"returned", "raised"}
    /\ LET rel == source_repo[proc.ri]
           ok  == upc = "returned" /\ result # None
           sd  == IF proc.item.kind = "source"
                     THEN set_source_code(proc.synced_data, rel.tag_name, proc.item.name, clock)
                     ELSE set_asset_row(proc.synced_data, Str(rel.id), rel.assets[proc.ai],
                                        result, clock)
       IN  IF ok
              THEN \E how \in SaveOutcomes :
                      /\ how # "ok" => CanFail
                      /\ SetFiles(save_synced_data(CurFS, sd, how))
                      /\ proc' = NextItem([proc EXCEPT !.synced_data = sd])
                      /\ hist' = IF how # "ok" THEN Failed(hist)
                                 ELSE IF proc.item.kind = "asset"
                                    THEN [hist EXCEPT !.synced = @ \cup {rel.assets[proc.ai].id}]
                                 ELSE hist
              ELSE /\ proc' = NextItem(proc)
                   /\ UNCHANGED <<ledgerFiles, hist>>
    /\ temp_files' = remove_temp(temp_files, proc.item.path)
    /\ LeaveUpload
    /\ UNCHANGED <<retry_count, remote, source_repo, target_refs, notMain>>

\* lines 356-361: the release is marked fully synced and the ledger saved
MarkRelease ==
    /\ proc.pc = "asset"
    /\ proc.ai > Len(source_repo[proc.ri].assets)
    /\ has_namespace(proc.synced_data, "releases")
    /\ \E how \in SaveOutcomes :
          LET rel == source_repo[proc.ri]
              sd  == set_release_row(proc.synced_data, Str(rel.id), rel.tag_name, clock)
          IN  /\ how # "ok" => CanFail
              /\ SetFiles(save_synced_data(CurFS, sd, how))
              /\ proc' = [proc EXCEPT !.synced_data = sd, !.pc = "release", !.ri = @ + 1,
                                      !.target_release = None, !.ai = 1,
                                      !.target_assets = EmptyDict]
              /\ hist' = IF how = "ok" THEN hist ELSE Failed(hist)
    /\ UNCHANGED <<retry_count, remote, uploadProc, source_repo, target_refs, temp_files,
                   notMain>>

\* lines 128, 177 and 357: the loaded document lacks the namespace the run is
\* about to write to; the KeyError is raised outside the try statements of
\* the sync functions and reaches the except of main
MissingNamespace ==
    /\ \/ proc.pc = "source_code" /\ ~has_namespace(proc.synced_data, "source_codes")
       \/ /\ proc.pc = "source_file"
          /\ proc.fi > Len(SourceFiles(source_repo[proc.ri].tag_name))
          /\ ~has_namespace(proc.synced_data, "assets")
       \/ /\ proc.pc = "asset"
          /\ proc.ai > Len(source_repo[proc.ri].assets)
          /\ ~has_namespace(proc.synced_data, "releases")
    /\ proc' = Abort(proc)
    /\ hist' = [hist EXCEPT !.clean = FALSE]
    /\ UNCHANGED <<ledgerFiles, retry_count, remote, uploadProc, source_repo, target_refs,
                   temp_files, notMain>>

\* lines 363-375: after the last release, or after an exception reached
\* main; the finally removes every temp_* file and the process ends
Finish ==
    /\ \/ proc.pc = "release" /\ proc.ri > Len(source_repo)
       \/ proc.pc = "cleanup"
    /\ temp_files' = EmptyDict
    /\ proc' = Dead
    /\ hist' = [hist EXCEPT !.prevClean = (hist.clean /\ proc.pc = "release"),
                            !.clean = FALSE, !.transferred = FALSE]
    /\ LeaveUpload
    /\ UNCHANGED <<ledgerFiles, retry_count, remote, source_repo, target_refs, notMain>>

\* the process is killed (no except, no finally).  A kill inside
\* download_file leaves the part of the file written so far; a kill inside
\* retry_upload can fall between the deletion and the upload.
Kill ==
    /\ proc.pc \notin {"idle"}
    /\ CanFail
    /\ proc' = Dead
    /\ hist' = [Failed(hist) EXCEPT !.prevClean = FALSE, !.transferred = FALSE]
    /\ LeaveUpload
    /\ \/ UNCHANGED <<temp_files, target_repo>>
       \/ /\ proc.pc = "download"
          /\ proc.item.path \notin DOMAIN temp_files
          /\ \E n \in 1..(proc.item.size - 1) :
                temp_files' = DictSet(temp_files, proc.item.path, [size |-> n, whole |-> FALSE])
          /\ UNCHANGED target_repo
       \/ /\ proc.pc = "upload"
          /\ upc = "attempt"
          /\ up_name \in DOMAIN target_repo[up_tag].assets
          /\ target_repo' = [target_repo EXCEPT ![up_tag].assets =
                                delete_existing_asset(@, up_name, "ok", "ok").assets]
          /\ UNCHANGED temp_files
    /\ UNCHANGED <<ledgerFiles, retry_count, clock, source_repo, target_refs, notMain>>

Next ==
    \/ StartRun
    \/ GetOrCreateRelease
    \/ SourceCodeBegin
    \/ SourceFile
    \/ AssetsBegin
    \/ Asset
    \/ Download
    \/ MainUploadAttempt
    \/ Record
    \/ MarkRelease
    \/ MissingNamespace
    \/ Finish
    \/ Kill

Spec == Init /\ [][Next]_vars

(***************************************************************************)
(* Claims about the ledger store, checked under SpecLedger.                *)
(***************************************************************************)
InsideSave == {"write", "backup", "promote", "except"}

\* C4 (as claimed): when the process is interrupted inside save_synced_data
\* and a parseable primary existed before the call, the next load returns the
\* ledger being saved or the ledger the primary held before the call.
C4_CrashSafeSave ==
    (lpc = "loaded" /\ crashedAt \in InsideSave /\ parses(prePrimary))
        => loaded.value \in {saving, _load(prePrimary)}

\* C5 (as claimed): when save_synced_data returns after a failed step, the
\* temp file is gone and the primary and backup files are as before the call.
C5_FailedSaveUntouched ==
    (lpc = "returned" /\ saveFailed)
        => /\ ~exists(temp_file)
           /\ synced_data_file = prePrimary
           /\ synced_data_backup = preBackup

C7_LoadFallback ==
    (lpc = "loaded" /\ exists(synced_data_file) /\ ~parses(synced_data_file))
        => /\ ~loaded.raised
           /\ loaded.value = IF exists(synced_data_backup) /\ parses(synced_data_backup)
                                THEN _load(synced_data_backup)
                                ELSE EmptyLedger

C7_Witness ==
    /\ lpc = "loaded"
    /\ synced_data_file = Garbage
    /\ parses(synced_data_backup)
    /\ loaded.value = _load(synced_data_backup)
    /\ loaded.value # EmptyLedger

(***************************************************************************)
(* Claims about retry_upload, checked under SpecUpload / SpecUploadFair.   *)
(***************************************************************************)
InCall == upc \in {"attempt", "returned", "raised"}

Finished == upc \in {"returned", "raised"}

\* the asset the call uploaded is the one the target release now holds
ReturnedUploaded ==
    /\ upc = "returned"
    /\ result \notin {None, NotYet}
    /\ up_name \in DOMAIN target_repo[up_tag].assets
    /\ target_repo[up_tag].assets[up_name] = result
    /\ result.size = up_file.size

\* C8 (as claimed): an upload that fails with the 422 conflict is never the
\* end of the call: the call deletes, retries, and does not end in failure
\* on the conflict, for every retry count.
C8_ConflictNeverEndsCall ==
    (InCall /\ lastUp = "conflict") => upc = "attempt"

\* C8 (amended): after an upload that fails with 422 the same call runs
\* delete_existing_asset for that name (the asset is gone when the listing
\* and the deletion succeed); when that upload was not the last of the
\* RETRY_COUNT iterations and the listing in the handler did not raise, the
\* call goes on to another iteration; and a call whose last upload succeeded
\* returns the uploaded asset.
C8_ConflictRecovery ==
    /\ (InCall /\ lastUp = "conflict") =>
          /\ handler \in {"deleted", "delete_failed", "no_match", "list_failed"}
          /\ handler = "deleted" => up_name \notin DOMAIN target_repo[up_tag].assets
          /\ (attempt < retry_count /\ handler # "list_failed") => upc = "attempt"
    /\ (InCall /\ lastUp = "ok") => ReturnedUploaded

C8_Witness ==
    /\ ReturnedUploaded
    /\ lastUp = "ok"
    /\ conflicts >= 1
    /\ uploads >= 2

\* C9 (as claimed): no backoff wait follows an upload that failed with 422;
\* time.sleep(RETRY_DELAY) is called only after failures of another kind.
C9_NoBackoffAfterConflict ==
    (InCall /\ lastUp = "conflict") => ~lastSlept

\* C10: retry_upload ends; it makes at most RETRY_COUNT upload attempts,
\* returns the uploaded asset as soon as an upload succeeds, returns None
\* exactly when RETRY_COUNT iterations ended without a success, and no
\* failure of upload_asset leaves it as an exception (the one exception that
\* leaves it is a failed listing inside the 422 handler).
C10_Bounded ==
    /\ attempt <= retry_count
    /\ uploads <= retry_count
    /\ InCall => uploads <= attempt + 1
    /\ (InCall /\ lastUp = "ok") => ReturnedUploaded
    /\ upc = "returned" =>
          /\ (result = None) <=> (attempt = retry_count /\ lastUp # "ok")
          /\ (result # None) => ReturnedUploaded
    /\ upc = "raised" => (lastUp = "conflict" /\ handler = "list_failed")

TargetPresent == dec_asset.name \in DOMAIN dec_target_assets

TargetOf == dec_target_assets[dec_asset.name]

LedgerHasKey == <<dec_asset.name, "_", dec_asset.size>> \in DOMAIN dec_ledger

\* the instant a timestamp denotes
Instant(dt) == dt.wall - dt.off

SameSize == TargetPresent /\ dec_asset.size = TargetOf.size

BothTimes == TargetPresent /\ dec_asset.updated_at # None /\ TargetOf.updated_at # None

SourceLater == BothTimes /\ Instant(dec_asset.updated_at) > Instant(TargetOf.updated_at)

\* C1 (as claimed): whatever the ledger holds, need_sync is true if and only
\* if the target has no asset of that name, or the sizes differ, or the sizes
\* are equal and the source time is strictly later than the target time.
C1_TriggerIgnoringLedger ==
    dec_pc = "decided" =>
        (dec_out.need_sync <=>
            (~TargetPresent \/ (TargetPresent /\ ~SameSize) \/ (SameSize /\ SourceLater)))

\* C1 (amended): need_sync is true if and only if the ledger has no row
\* under name_sourceSize for this release, or the target has no asset of
\* that name, or the sizes differ, or the sizes are equal, both timestamps
\* are present and the source time is strictly later than the target time.
C1_TriggerWithLedger ==
    dec_pc = "decided" =>
        (dec_out.need_sync <=>
            (~LedgerHasKey \/ ~TargetPresent \/ (TargetPresent /\ ~SameSize)
                \/ (SameSize /\ SourceLater)))

C1_Witness ==
    /\ dec_pc = "decided"
    /\ ~LedgerHasKey
    /\ SameSize
    /\ BothTimes
    /\ ~SourceLater
    /\ dec_out.need_sync

\* C2: need_sync is decided by the first matching rule of: (1) no ledger row
\* under name_sourceSize -> sync; (2) no target asset of that name -> sync;
\* (3) sizes differ -> sync; (4) both timestamps present and the source one
\* strictly later -> sync; (5) otherwise skip.
C2_OrderedPolicy ==
    dec_pc = "decided" =>
        dec_out = CASE ~LedgerHasKey  -> [need_sync |-> TRUE, rule |-> "ledger_missing"]
                    [] LedgerHasKey /\ ~TargetPresent
                                      -> [need_sync |-> TRUE, rule |-> "target_missing"]
                    [] LedgerHasKey /\ TargetPresent /\ ~SameSize
                                      -> [need_sync |-> TRUE, rule |-> "size"]
                    [] LedgerHasKey /\ SameSize /\ SourceLater
                                      -> [need_sync |-> TRUE, rule |-> "newer"]
                    [] OTHER          -> [need_sync |-> FALSE, rule |-> "skip"]

\* the scenario of rule 4: equal sizes, a ledger row, source time later, read
\* in different zones
C2_Witness ==
    /\ dec_pc = "decided"
    /\ LedgerHasKey
    /\ SameSize
    /\ SourceLater
    /\ dec_asset.updated_at.off # TargetOf.updated_at.off
    /\ dec_out = [need_sync |-> TRUE, rule |-> "newer"]

(***************************************************************************)
(* Claims about the runs of main, checked under Spec.                      *)
(***************************************************************************)
\* C3 (as claimed): when the run before this one went through every release
\* with no failure and nothing else changed the repositories or the ledger,
\* this run performs no transfer: it requests no download, no upload and no
\* deletion.
C3_SecondRunTransfersNothing ==
    hist.prevClean => ~hist.transferred

\* the steps of a run, read off two successive states
AssetSkipped ==
    proc.pc = "asset" /\ proc'.pc = "asset" /\ proc'.ai = proc.ai + 1

ArchiveSkipped ==
    proc.pc = "source_file" /\ proc'.pc = "source_file" /\ proc'.fi = proc.fi + 1

TransferStarted ==
    proc.pc \in {"asset", "source_file"} /\ proc'.pc = "download"

\* the release of the run, its asset and archive at hand, and what the target
\* release holds at this moment
CurRelease == source_repo[proc.ri]

CurAsset == CurRelease.assets[proc.ai]

CurArchive == SourceFiles(CurRelease.tag_name)[proc.fi]

LiveAssets == target_repo[proc.target_release].assets

LiveAssetMatches ==
    /\ CurAsset.name \in DOMAIN LiveAssets
    /\ LiveAssets[CurAsset.name].size = CurAsset.size
    /\ \/ CurAsset.updated_at = None
       \/ LiveAssets[CurAsset.name].updated_at = None
       \/ Instant(LiveAssets[CurAsset.name].updated_at) >= Instant(CurAsset.updated_at)

\* C11: whatever the ledger holds, a source asset is skipped only if the
\* target release holds at that moment an asset of its name, of the same size
\* and with a timestamp not earlier than the source's (or a timestamp is
\* missing), and a source archive is skipped only if the target holds at that
\* moment an asset of the archive's name.
C11_SkipOnlyOnLiveMatch ==
    [][/\ AssetSkipped => LiveAssetMatches
       /\ ArchiveSkipped => CurArchive \in DOMAIN LiveAssets]_vars

\* a ledger row exists for the asset, the target has lost the asset, and the
\* run has started its transfer
C11_Witness ==
    /\ proc.pc = "download"
    /\ proc.item.kind = "asset"
    /\ asset_key(CurAsset) \in DOMAIN proc.synced_data.assets[Str(CurRelease.id)]
    /\ CurAsset.name \notin DOMAIN LiveAssets

\* the asset rows of a ledger, as triples of release id, key and row
AssetRows(sd) ==
    IF "assets" \in DOMAIN sd
        THEN UNION {{<<sid, k, sd.assets[sid][k]>> : k \in DOMAIN sd.assets[sid]} :
                    sid \in DOMAIN sd.assets}
        ELSE {}

\* the run goes on from this state to the next with the ledger it holds
RunGoesOn == proc.pc \notin {"idle"} /\ proc'.pc \notin {"idle", "cleanup"}

\* retry_upload has returned an uploaded asset for the asset at hand and the
\* caller takes it
UploadedAssetTaken ==
    /\ proc.pc = "upload"
    /\ proc.item.kind = "asset"
    /\ upc = "returned"
    /\ result # None

\* C12: a row of assets[source_release_id] is created or changed only when
\* retry_upload returned an uploaded asset for that source asset; the row is
\* stored under name_sourceSize and its size and updated_at are those of the
\* uploaded target asset.  A skip, a failed download and an exhausted upload
\* leave every asset row as it was.
C12_RowsOnlyAfterUpload ==
    [][RunGoesOn /\ AssetRows(proc'.synced_data) # AssetRows(proc.synced_data) =>
          /\ UploadedAssetTaken
          /\ AssetRows(proc.synced_data) \ AssetRows(proc'.synced_data)
                \subseteq {t \in AssetRows(proc.synced_data) :
                              t[1] = Str(CurRelease.id)
                              /\ t[2] = <<CurAsset.name, "_", CurAsset.size>>}
          /\ AssetRows(proc'.synced_data) \ AssetRows(proc.synced_data) =
                {<<Str(CurRelease.id), <<CurAsset.name, "_", CurAsset.size>>,
                   [name |-> CurAsset.name,
                    size |-> result.size,
                    updated_at |-> [iso |-> <<Instant(result.updated_at), 0>>],
                    synced_at |-> clock]>>}]_vars

\* a row written after the upload of a file whose size is not the source's
C12_Witness ==
    /\ proc.pc = "asset"
    /\ proc.ai = 2
    /\ \E t \in AssetRows(proc.synced_data) :
          /\ t[2] = <<AppZip, "_", CurRelease.assets[1].size>>
          /\ t[3].synced_at = clock
          /\ t[3].size # CurRelease.assets[1].size

\* sync_source_code is at an archive name that the target release holds
ArchivePresent ==
    /\ proc.pc = "source_file"
    /\ proc.fi <= Len(SourceFiles(CurRelease.tag_name))
    /\ CurArchive \in DOMAIN LiveAssets

SourceRows(p) == p.synced_data.source_codes[CurRelease.tag_name]

\* C13: for an archive name that the target release already holds, whatever
\* the sizes, sync_source_code requests no download, no deletion and no
\* upload, and goes on to the next name with source_codes[tag][filename]
\* holding exists = true; a row recorded before is left as it is and nothing
\* is saved.
C13_PresentArchiveSkipped ==
    [][ArchivePresent /\ proc'.pc # "idle" =>
          /\ ArchiveSkipped
          /\ UNCHANGED <<target_repo, temp_files, uploadProc>>
          /\ CurArchive \in DOMAIN SourceRows(proc')
          /\ SourceRows(proc')[CurArchive].exists = TRUE
          /\ CurArchive \in DOMAIN SourceRows(proc) =>
                /\ SourceRows(proc')[CurArchive] = SourceRows(proc)[CurArchive]
                /\ UNCHANGED ledgerFiles]_vars

\* the zip archive of the tag was in the target before the first run, with a
\* size that is not the size of the source's archive; the run has recorded it
\* and gone on without any transfer
C13_Witness ==
    /\ proc.pc = "source_file"
    /\ proc.fi = 2
    /\ SourceFiles(CurRelease.tag_name)[1] \in DOMAIN LiveAssets
    /\ LiveAssets[SourceFiles(CurRelease.tag_name)[1]].size # MaxSize
    /\ SourceFiles(CurRelease.tag_name)[1] \in DOMAIN SourceRows(proc)
    /\ ~hist.transferred

(***************************************************************************)
(* Claims about get_or_create_release, checked under SpecRelease.          *)
(***************************************************************************)
CallTag == source_repo[1].tag_name

\* the position in a sequence of calls of the first call of that name, 0 when
\* there is none
FirstCall(calls, name) ==
    IF \E i \in 1..Len(calls) : calls[i] = name
        THEN CHOOSE i \in 1..Len(calls) :
                calls[i] = name /\ \A j \in 1..(i - 1) : calls[j] # name
        ELSE 0

Writes == {"create_git_ref", "create_git_release"}

\* C14: when the target has a release of the tag, the call changes neither
\* the target's releases nor its tag refs and requests no creation, whatever
\* the source release carries; when its listing succeeds it returns that
\* release.
C14_ExistingReleaseUntouched ==
    [][proc.pc = "call" /\ CallTag \in DOMAIN target_repo =>
          /\ target_repo' = target_repo
          /\ target_refs' = target_refs
          /\ \A i \in 1..Len(proc'.gcr.calls) : proc'.gcr.calls[i] \notin Writes
          /\ proc'.pc = "returned" => proc'.ret = CallTag]_vars

\* the release of the tag was found, with a name, a body and a draft flag
\* that are not the source's, and no ref for the tag
C14_Witness ==
    /\ proc.pc = "returned"
    /\ proc.gcr.did = "found"
    /\ proc.ret = CallTag
    /\ target_repo[CallTag].name # source_repo[1].name
    /\ target_repo[CallTag].body # source_repo[1].body
    /\ target_repo[CallTag].draft # source_repo[1].draft
    /\ CallTag \notin DOMAIN target_refs

(***************************************************************************)
(* More claims about get_or_create_release, checked under SpecRelease.     *)
(***************************************************************************)
\* the call starts with neither a release nor a tag ref for the tag
NeitherReleaseNorRef ==
    /\ proc.pc = "call"
    /\ CallTag \notin DOMAIN target_repo
    /\ CallTag \notin DOMAIN target_refs

\* the tag ref is made, at the tip of the default branch, before the release
\* is asked for
RefThenRelease ==
    FirstCall(proc'.gcr.calls, "create_git_release") > 0 =>
        /\ FirstCall(proc'.gcr.calls, "create_git_ref") > 0
        /\ FirstCall(proc'.gcr.calls, "create_git_ref")
              < FirstCall(proc'.gcr.calls, "create_git_release")
        /\ CallTag \in DOMAIN target_refs'
        /\ target_refs'[CallTag] = BranchTip

Unset(v) == v \in {None, Text(<< >>)}

\* C16 (as claimed): from a target with neither a release nor a ref for the
\* tag, the ref is created at the tip of the default branch before the
\* release, and the created release carries exactly the source release's
\* name, body, draft flag and prerelease flag, also when name or body is unset.
C16_CreatedCarriesSourceValues ==
    [][NeitherReleaseNorRef =>
          /\ RefThenRelease
          /\ proc'.gcr.did = "created" =>
                /\ target_repo'[CallTag].name = source_repo[1].name
                /\ target_repo'[CallTag].body = source_repo[1].body
                /\ target_repo'[CallTag].draft = source_repo[1].draft
                /\ target_repo'[CallTag].prerelease = source_repo[1].prerelease]_vars

\* C16 (amended): the same, with the created release named after the tag when
\* the source's name is unset or empty, and with an empty body when the
\* source's body is unset.
C16_CreatedCarriesSourceOrDefault ==
    [][NeitherReleaseNorRef =>
          /\ RefThenRelease
          /\ proc'.gcr.did = "created" =>
                /\ target_repo'[CallTag].name =
                      IF Unset(source_repo[1].name) THEN Text(CallTag)
                                                    ELSE source_repo[1].name
                /\ target_repo'[CallTag].body =
                      IF Unset(source_repo[1].body) THEN Text(<< >>)
                                                    ELSE source_repo[1].body
                /\ target_repo'[CallTag].draft = source_repo[1].draft
                /\ target_repo'[CallTag].prerelease = source_repo[1].prerelease
                /\ target_repo'[CallTag].assets = EmptyDict]_vars

\* a release was created for a source release with no name and no body, and
\* the ref of the tag stands at the tip of the default branch
C16_Witness ==
    /\ proc.pc = "returned"
    /\ proc.gcr.did = "created"
    /\ proc.gcr.calls = <<"get_releases", "get_git_ref", "get_branch", "create_git_ref",
                          "create_git_release">>
    /\ source_repo[1].name = None
    /\ source_repo[1].body = None
    /\ source_repo[1].draft
    /\ target_repo[CallTag].name = Text(CallTag)
    /\ target_refs[CallTag] = BranchTip

(***************************************************************************)
(* Claims about the release step of main, checked under Spec.              *)
(***************************************************************************)
\* main calls get_or_create_release for a tag the target has no release of,
\* the call returns and it has not created the release itself
CreationFailed ==
    /\ proc.pc = "release"
    /\ proc.ri <= Len(source_repo)
    /\ CurRelease.tag_name \notin DOMAIN target_repo
    /\ proc'.pc \notin {"idle", "cleanup"}
    /\ proc'.gcr.did # "created"

\* C15: when the creation of the target release fails, get_or_create_release
\* lists the target's releases again; if a release of the tag is there now it
\* is the target release the run goes on with, and if none is there main goes
\* on to the next source release with the ledger it holds, the ledger files,
\* the temp files and the assets of the target as they were: nothing is
\* transferred and no row is added or changed.
C15_FailedCreationSkipsRelease ==
    [][CreationFailed =>
          /\ Len(proc'.gcr.calls) >= 2
          /\ proc'.gcr.calls[Len(proc'.gcr.calls)] = "get_releases"
          /\ IF CurRelease.tag_name \in DOMAIN target_repo'
                THEN /\ proc'.pc = "source_code"
                     /\ proc'.target_release = CurRelease.tag_name
                ELSE /\ proc'.pc = "release"
                     /\ proc'.ri = proc.ri + 1
                     /\ proc'.synced_data = proc.synced_data
                     /\ UNCHANGED <<ledgerFiles, temp_files, uploadProc, target_repo>>]_vars

\* the creation failed and nobody else made the release: the release was
\* skipped, and the run is over its last release with nothing transferred
C15_Witness ==
    /\ proc.pc = "release"
    /\ proc.ri > Len(source_repo)
    /\ proc.gcr.did = "create_failed"
    /\ source_repo[Len(source_repo)].tag_name \notin DOMAIN target_repo
    /\ ~hist.transferred

\* C17 (as claimed): once the release loop of main is running, no failure met
\* while working on one release or one of its assets ends the loop: the run
\* never enters the except branch of main from inside the loop.
C17_LoopNeverEndsEarly ==
    [][proc.pc # "idle" => proc'.pc # "cleanup"]_vars

\* C18 (as claimed): the file a transfer uploads was written, whole, by that
\* transfer's own download: when a transfer goes from its download to its
\* upload, no file stood at its temp path before and the file there now has
\* the whole content of the source.
C18_UploadsOwnDownload ==
    [][proc.pc = "download" /\ proc'.pc = "upload" =>
          /\ proc.item.path \notin DOMAIN temp_files
          /\ temp_files'[proc.item.path] = [size |-> proc.item.size, whole |-> TRUE]
          /\ up_file' = [size |-> proc.item.size]]_vars

\* C19 (as claimed): once a run has uploaded a source asset and the save of
\* its ledger row has succeeded, no later run starts a transfer of that
\* asset, as long as only the reconciler writes the source, the target and
\* the ledger file.
C19_SyncedAssetStaysSkipped ==
    [][/\ proc.pc = "asset"
       /\ proc.ai <= Len(CurRelease.assets)
       /\ CurAsset.id \in hist.synced
       => proc'.pc # "download"]_vars

Namespaces == {"releases", "assets", "source_codes"}

\* C20 (as claimed): whatever the ledger files hold, the ledger a run works
\* with, as load_synced_data returned it, has the three namespaces releases,
\* assets and source_codes.
C20_LoadedLedgerHasNamespaces ==
    proc.pc # "idle" => Namespaces \subseteq DOMAIN proc.synced_data

====
